---- MODULE Spec2Model ----
(***************************************************************************)
(* MyUniquePtr<T, Deleter> (src/MyUnique_ptr/MyUnique_ptr.cpp): the        *)
(* ownership state machine of an exclusive-ownership smart pointer.        *)
(*                                                                         *)
(* A resource is one allocation (one result of a new-expression); a handle *)
(* is a resource or Null (nullptr).  Every call `deleter(ptr)` the class   *)
(* makes is counted on the handle it is made on, and the calls of the most *)
(* recent operation are kept with the deleter that was called and what the *)
(* owner stored during the call.  The caller of the class is part of the   *)
(* model: it allocates, and it keeps the handles that are its own to       *)
(* release (hand).                                                         *)
(*                                                                         *)
(* Spec is the class used by a caller that passes only nullptr and handles *)
(* it owns.  SpecTravel is a caller that adopts every resource with an     *)
(* explicit deleter, notes the pair, and then only moves, swaps and        *)
(* destroys.  SpecAlias is a caller that also passes what get() returned.  *)
(***************************************************************************)
EXTENDS Integers, Sequences, FiniteSets, TLC

\* ----------------------------------------------------------------- bounds
NOwners == 2        \* MyUniquePtr objects (storage slots) the caller uses
NRes == 2           \* allocations the caller may make
NDeleters == 2      \* distinct Deleter values

Owners == 1..NOwners
Res == 1..NRes
Null == 0                           \* nullptr
Handles == {Null} \cup Res          \* values of T*
Deleters == 0..(NDeleters - 1)      \* values of the Deleter type

\* ------------------------------------------------------------------ state
VARIABLES
    live,     \* the owners whose lifetime has begun and not ended
    own,      \* own[o] = [ptr, deleter]: the two data members of owner o
    count,    \* count[h]: how many calls deleter(h) were made so far
    alloc,    \* resources allocated so far by new-expressions
    hand,     \* resources whose handle the caller owns (not in any owner)
    last,     \* the operation that produced this state, its arguments and result
    paired,   \* the pairs <<handle, deleter>> the caller has noted when adopting
    aliases   \* how often the caller has passed a handle that an owner held

vars == <<live, own, count, alloc, hand, last, paired, aliases>>

\* What the caller notes down or counts about its own use of the class.  The
\* operations of the class neither read nor change it.
notes == <<paired, aliases>>

\* The members of an object whose lifetime has not begun or has ended are
\* no state of the program: they are kept at one fixed value.
NoObject == [ptr |-> Null, deleter |-> 0]

\* A Deleter that is default-initialised (line 25, no initialiser in the
\* constructors of lines 29 and 32): DefaultDeleter{} for the class type, an
\* indeterminate value for a function pointer.  Any value of the type.
DefaultInit == Deleters

\* What std::move(other.deleter) may leave in other.deleter: the value it had
\* for a trivially copyable Deleter (DefaultDeleter, a function pointer); a
\* valid but unspecified value for other Deleter types, which is the value it
\* had or the emptied one (0).
MovedFrom(d) == {d, 0}

\* last: the name of the operation, the handle its (first) owner stored when
\* it began (pa: the owner itself; the source of a move; the left operand of a
\* swap), the handle its second owner stored (pb: the destination of a move
\* assignment; the right operand of a swap), the value it returned, and the
\* deleter calls it made, in order.
NoOp == [op |-> "none", pa |-> Null, pb |-> Null, ret |-> Null, calls |-> <<>>]

Op(name, pa, pb, ret, calls) ==
    [op |-> name, pa |-> pa, pb |-> pb, ret |-> ret, calls |-> calls]

\* --------------------------------------------------- the member functions
\* Each takes the program state st = [own, count, calls] (calls: the deleter
\* calls made so far in the running operation) and gives the state after it.
\* The first definitions are the single statements the functions are made of.
\* The definitions whose comment begins "Faulty" are not the program: each is
\* the function that follows it with one plausible slip, and is used only to
\* show that a property of the program is sensitive to that function.

\* deleter(ptr);  in owner o.  The call is counted on the handle passed, and
\* recorded with the deleter value called and what o.ptr holds meanwhile.
call_deleter(st, o) ==
    [st EXCEPT !.count[st.own[o].ptr] = @ + 1,
               !.calls = Append(@, [h |-> st.own[o].ptr,
                                    by |-> st.own[o].deleter,
                                    stored |-> st.own[o].ptr])]

\* ptr = v;  in owner o.
set_ptr(st, o, v) == [st EXCEPT !.own[o].ptr = v]

\* ptr = other.ptr;  in owner b, other being a.
take_ptr(st, b, a) == [st EXCEPT !.own[b].ptr = st.own[a].ptr]

\* deleter = std::move(other.deleter);  in owner b, other being a; m is the
\* value the move leaves in other.deleter.
take_deleter(st, b, a, m) ==
    [st EXCEPT !.own[b].deleter = st.own[a].deleter, !.own[a].deleter = m]

\* std::swap(ptr, other.ptr);
swap_ptr(st, a, b) ==
    [st EXCEPT !.own[a].ptr = st.own[b].ptr, !.own[b].ptr = st.own[a].ptr]

\* std::swap(deleter, other.deleter);
swap_deleter(st, a, b) ==
    [st EXCEPT !.own[a].deleter = st.own[b].deleter,
               !.own[b].deleter = st.own[a].deleter]

\* The lifetime of owner o ends.
end_lifetime(st, o) == [st EXCEPT !.own[o] = NoObject]

\* Faulty get: answers nullptr whatever is stored.
get_absent(st, o) == Null

\* T* get() const { return ptr; }
get(st, o) == st.own[o].ptr

\* Faulty reset: stores p before it tests and releases ptr.
reset_store_first(st, o, p) ==
    IF p # Null THEN call_deleter(set_ptr(st, o, p), o) ELSE set_ptr(st, o, p)

\* Faulty reset: no test of ptr before the call.
reset_unchecked(st, o, p) == set_ptr(call_deleter(st, o), o, p)

\* Faulty reset: ptr is given its new value before the old one is released
\* (old = ptr; ptr = p; if (old) deleter(old);).
reset_exchange_first(st, o, p) ==
    IF get(st, o) # Null
    THEN [set_ptr(st, o, p) EXCEPT
            !.count[get(st, o)] = @ + 1,
            !.calls = Append(@, [h |-> get(st, o),
                                 by |-> st.own[o].deleter,
                                 stored |-> p])]
    ELSE set_ptr(st, o, p)

\* void reset(T* p = nullptr) { if (ptr) { deleter(ptr); } ptr = p; }
reset(st, o, p) ==
    set_ptr(IF get(st, o) # Null THEN call_deleter(st, o) ELSE st, o, p)

\* Faulty release: ptr is not cleared.
release_keep(st, o) == st

\* T* release() { T* temp = ptr; ptr = nullptr; return temp; }
\* (the returned temp is the handle get(st, o) of the state before)
release(st, o) == set_ptr(st, o, Null)

\* Faulty swap: the deleters are not exchanged.
swap_ptr_only(st, a, b) == swap_ptr(st, a, b)

\* Faulty swap: ptr is exchanged without a temporary.
swap_no_temp(st, a, b) == swap_deleter(take_ptr(take_ptr(st, a, b), b, a), a, b)

\* void swap(MyUniquePtr& other) noexcept {
\*     std::swap(ptr, other.ptr); std::swap(deleter, other.deleter); }
swap(st, a, b) == swap_deleter(swap_ptr(st, a, b), a, b)

\* Faulty move constructor: other.ptr is not cleared.
move_construct_keep_source(st, b, a, m) ==
    take_deleter(take_ptr(st, b, a), b, a, m)

\* MyUniquePtr(MyUniquePtr&& other) noexcept
\*     : ptr(other.ptr), deleter(std::move(other.deleter)) { other.ptr = nullptr; }
\* b is the new object, a is other.
move_construct(st, b, a, m) ==
    set_ptr(take_deleter(take_ptr(st, b, a), b, a, m), a, Null)

\* Faulty move assignment: other.ptr is not cleared.
move_assign_keep_source(st, b, a, m) ==
    IF b # a
    THEN take_deleter(take_ptr(reset(st, b, Null), b, a), b, a, m)
    ELSE st

\* Faulty move assignment: the deleter is taken before reset() runs.
move_assign_steal_first(st, b, a, m) ==
    IF b # a
    THEN set_ptr(take_ptr(reset(take_deleter(st, b, a, m), b, Null), b, a), a, Null)
    ELSE st

\* Faulty move assignment: no test for self-assignment (a self-move leaves
\* the deleter as it is).
move_assign_no_self_check(st, b, a, m) ==
    set_ptr(take_deleter(take_ptr(reset(st, b, Null), b, a), b, a,
                         IF a = b THEN st.own[a].deleter ELSE m), a, Null)

\* Faulty move assignment: reset() is not called.
move_assign_no_reset(st, b, a, m) ==
    IF b # a
    THEN set_ptr(take_deleter(take_ptr(st, b, a), b, a, m), a, Null)
    ELSE st

\* MyUniquePtr& operator=(MyUniquePtr&& other) noexcept {
\*     if (this != &other) { reset(); ptr = other.ptr;
\*         deleter = std::move(other.deleter); other.ptr = nullptr; }
\*     return *this; }
\* b is *this, a is other.
move_assign(st, b, a, m) ==
    IF b # a
    THEN set_ptr(take_deleter(take_ptr(reset(st, b, Null), b, a), b, a, m), a, Null)
    ELSE st

\* Faulty destructor: reset() is not called.
destroy_no_reset(st, o) == end_lifetime(st, o)

\* ~MyUniquePtr() { reset(); }   and the object's lifetime ends.
destroy(st, o) == end_lifetime(reset(st, o, Null), o)

\* What a new-expression gives when no memory can be had: it throws
\* std::bad_alloc instead of returning a handle.
BadAlloc == -1

\* Faulty make_unique: a failed allocation is answered with an empty owner.
make_unique_empty_on_failure(st, o, r, d) ==
    [st EXCEPT !.own[o] = [ptr |-> IF r = BadAlloc THEN Null ELSE r,
                           deleter |-> d]]

\* template<typename T, typename... Args>
\* MyUniquePtr<T> make_unique(Args&&... args) {
\*     return MyUniquePtr<T>(new T(std::forward<Args>(args)...)); }
\* r is what the new-expression gave.  When it throws, the function is left
\* before the constructor of line 32 is called; otherwise the returned object
\* o is constructed with ptr(r) and a default-initialised deleter d.
make_unique(st, o, r, d) ==
    IF r = BadAlloc
    THEN st
    ELSE [st EXCEPT !.own[o] = [ptr |-> r, deleter |-> d]]

\* The program state when an operation begins.
Cur == [own |-> own, count |-> count, calls |-> <<>>]

\* The operation `name` ends in program state s, having returned ret.
Done(s, name, pa, pb, ret) ==
    /\ last' = Op(name, pa, pb, ret, s.calls)
    /\ own' = s.own
    /\ count' = s.count

\* The handles the caller may pass to a constructor or to reset: nullptr or
\* a handle that is the caller's to give away.
Args == {Null} \cup hand

Give(p) == hand \ {p}

\* ---------------------------------------------------------------- actions
Init ==
    /\ live = {}
    /\ own = [o \in Owners |-> NoObject]
    /\ count = [h \in Handles |-> 0]
    /\ alloc = {}
    /\ hand = {}
    /\ last = NoOp
    /\ paired = {}
    /\ aliases = 0

\* new T(...): a fresh allocation, whose handle the caller holds.  Which
\* address new returns is immaterial: resources are handed out in order.
Fresh == {r \in Res \ alloc : \A q \in Res \ alloc : r <= q}

New ==
    \E r \in Fresh :
        /\ alloc' = alloc \cup {r}
        /\ hand' = hand \cup {r}
        /\ last' = Op("new", Null, Null, r, <<>>)
        /\ UNCHANGED <<live, own, count, notes>>

\* MyUniquePtr() : ptr(nullptr) {}
DefaultCtor(o) ==
    /\ o \notin live
    /\ last' = Op("default_ctor", Null, Null, Null, <<>>)
    /\ live' = live \cup {o}
    /\ \E d \in DefaultInit :
        own' = [own EXCEPT ![o] = [ptr |-> Null, deleter |-> d]]
    /\ UNCHANGED <<count, alloc, hand, notes>>

\* explicit MyUniquePtr(T* p) : ptr(p) {}
PtrCtor(o, p) ==
    /\ o \notin live
    /\ p \in Args
    /\ last' = Op("ptr_ctor", Null, Null, Null, <<>>)
    /\ live' = live \cup {o}
    /\ hand' = Give(p)
    /\ \E d \in DefaultInit :
        own' = [own EXCEPT ![o] = [ptr |-> p, deleter |-> d]]
    /\ UNCHANGED <<count, alloc, notes>>

\* MyUniquePtr(T* p, Deleter d) : ptr(p), deleter(d) {}
PtrDeleterCtor(o, p, d) ==
    /\ o \notin live
    /\ p \in Args
    /\ last' = Op("ptr_deleter_ctor", Null, Null, Null, <<>>)
    /\ live' = live \cup {o}
    /\ hand' = Give(p)
    /\ own' = [own EXCEPT ![o] = [ptr |-> p, deleter |-> d]]
    /\ UNCHANGED <<count, alloc, notes>>

\* MyUniquePtr b(std::move(a));
MoveCtor(b, a) ==
    /\ b \notin live
    /\ a \in live
    /\ live' = live \cup {b}
    /\ \E m \in MovedFrom(own[a].deleter) :
        Done(move_construct(Cur, b, a, m), "move_ctor", own[a].ptr, Null, Null)
    /\ UNCHANGED <<alloc, hand, notes>>

\* b = std::move(a);  (b = a is self-assignment)
MoveAssign(b, a) ==
    /\ b \in live
    /\ a \in live
    /\ \E m \in MovedFrom(own[a].deleter) :
        Done(move_assign(Cur, b, a, m), "move_assign", own[a].ptr, own[b].ptr, Null)
    /\ UNCHANGED <<live, alloc, hand, notes>>

\* o goes out of scope.
Dtor(o) ==
    /\ o \in live
    /\ live' = live \ {o}
    /\ Done(destroy(Cur, o), "dtor", own[o].ptr, Null, Null)
    /\ UNCHANGED <<alloc, hand, notes>>

\* o.get();
Get(o) ==
    /\ o \in live
    /\ last' = Op("get", own[o].ptr, Null, get(Cur, o), <<>>)
    /\ UNCHANGED <<live, own, count, alloc, hand, notes>>

\* T* h = o.release();  the caller now holds h.
Release(o) ==
    /\ o \in live
    /\ hand' = hand \cup ({get(Cur, o)} \ {Null})
    /\ Done(release(Cur, o), "release", own[o].ptr, Null, get(Cur, o))
    /\ UNCHANGED <<live, alloc, notes>>

\* o.reset(p);
Reset(o, p) ==
    /\ o \in live
    /\ p \in Args
    /\ hand' = Give(p)
    /\ Done(reset(Cur, o, p), "reset", own[o].ptr, Null, Null)
    /\ UNCHANGED <<live, alloc, notes>>

\* a.swap(b);
Swap(a, b) ==
    /\ a \in live
    /\ b \in live
    /\ Done(swap(Cur, a, b), "swap", own[a].ptr, own[b].ptr, Null)
    /\ UNCHANGED <<live, alloc, hand, notes>>

\* swap(lhs, rhs) { lhs.swap(rhs); }
FreeSwap(lhs, rhs) ==
    /\ lhs \in live
    /\ rhs \in live
    /\ Done(swap(Cur, lhs, rhs), "free_swap", own[lhs].ptr, own[rhs].ptr, Null)
    /\ UNCHANGED <<live, alloc, hand, notes>>

\* MyUniquePtr<T> o = make_unique<T>(args...);  The allocation inside may
\* fail at any time, and does when the memory is used up.
MakeUnique(o) ==
    /\ o \notin live
    /\ \E r \in Fresh \cup {BadAlloc}, d \in DefaultInit :
        /\ alloc' = alloc \cup ({r} \ {BadAlloc})
        /\ live' = live \cup (IF r = BadAlloc THEN {} ELSE {o})
        /\ Done(make_unique(Cur, o, r, d), "make_unique", Null, Null, r)
    /\ UNCHANGED <<hand, notes>>

Next ==
    \/ New
    \/ \E o \in Owners : MakeUnique(o)
    \/ \E o \in Owners : DefaultCtor(o)
    \/ \E o \in Owners, p \in Handles : PtrCtor(o, p)
    \/ \E o \in Owners, p \in Handles, d \in Deleters : PtrDeleterCtor(o, p, d)
    \/ \E a, b \in Owners : MoveCtor(b, a)
    \/ \E a, b \in Owners : MoveAssign(b, a)
    \/ \E o \in Owners : Dtor(o)
    \/ \E o \in Owners : Get(o)
    \/ \E o \in Owners : Release(o)
    \/ \E o \in Owners, p \in Handles : Reset(o, p)
    \/ \E a, b \in Owners : Swap(a, b)
    \/ \E a, b \in Owners : FreeSwap(a, b)

Spec == Init /\ [][Next]_vars

\* ----------------------------------------- a caller that notes its deleters
\* MyUniquePtr<T, Deleter> o(p, d);  by a caller that notes down which
\* deleter it handed over with each resource.
AdoptPaired(o, p, d) ==
    /\ o \notin live
    /\ p \in Args
    /\ last' = Op("ptr_deleter_ctor", Null, Null, Null, <<>>)
    /\ live' = live \cup {o}
    /\ hand' = Give(p)
    /\ own' = [own EXCEPT ![o] = [ptr |-> p, deleter |-> d]]
    /\ paired' = paired \cup (({p} \ {Null}) \X {d})
    /\ UNCHANGED <<count, alloc, aliases>>

\* The caller adopts every resource with an explicit deleter and then only
\* moves, swaps and destroys owners: no reset, no release.
NextTravel ==
    \/ New
    \/ \E o \in Owners, p \in Handles, d \in Deleters : AdoptPaired(o, p, d)
    \/ \E a, b \in Owners : MoveCtor(b, a)
    \/ \E a, b \in Owners : MoveAssign(b, a)
    \/ \E a, b \in Owners : Swap(a, b)
    \/ \E a, b \in Owners : FreeSwap(a, b)
    \/ \E o \in Owners : Dtor(o)

SpecTravel == Init /\ [][NextTravel]_vars

\* ------------------------------------ a caller that passes get()'s result
\* How often the caller passes a handle it does not own.
MaxAliases == 1

\* MyUniquePtr<T, Deleter> o(q.get(), d);  q keeps the handle it stores.
AliasPtrDeleterCtor(o, q, d) ==
    /\ o \notin live
    /\ q \in live
    /\ get(Cur, q) # Null
    /\ aliases < MaxAliases
    /\ aliases' = aliases + 1
    /\ last' = Op("ptr_deleter_ctor", Null, Null, Null, <<>>)
    /\ live' = live \cup {o}
    /\ own' = [own EXCEPT ![o] = [ptr |-> get(Cur, q), deleter |-> d]]
    /\ UNCHANGED <<count, alloc, hand, paired>>

\* o.reset(q.get());  q may be o itself.
AliasReset(o, q) ==
    /\ o \in live
    /\ q \in live
    /\ get(Cur, q) # Null
    /\ aliases < MaxAliases
    /\ aliases' = aliases + 1
    /\ Done(reset(Cur, o, get(Cur, q)), "reset", own[o].ptr, Null, Null)
    /\ UNCHANGED <<live, alloc, hand, paired>>

\* The caller adopts, moves, gets, releases, resets, swaps and destroys, and
\* up to MaxAliases times it passes what get() returns as if the handle were
\* its own.  Which deleter an owner has plays no part here: the caller gives
\* every owner the same one (the value 0).
NextAlias ==
    \/ New
    \/ \E o \in Owners, p \in Handles : PtrDeleterCtor(o, p, 0)
    \/ \E a, b \in Owners : MoveCtor(b, a)
    \/ \E a, b \in Owners : MoveAssign(b, a)
    \/ \E o \in Owners : Dtor(o)
    \/ \E o \in Owners : Get(o)
    \/ \E o \in Owners : Release(o)
    \/ \E o \in Owners, p \in Handles : Reset(o, p)
    \/ \E a, b \in Owners : Swap(a, b)
    \/ \E o, q \in Owners : AliasPtrDeleterCtor(o, q, 0)
    \/ \E o, q \in Owners : AliasReset(o, q)

SpecAlias == Init /\ [][NextAlias]_vars

\* ------------------------------------------------------------ type sanity
TypeOK ==
    /\ live \subseteq Owners
    /\ own \in [Owners -> [ptr : Handles, deleter : Deleters]]
    /\ \A o \in Owners \ live : own[o] = NoObject
    /\ alloc \subseteq Res
    /\ hand \subseteq alloc
    /\ count \in [Handles -> Nat]
    /\ last.calls \in Seq([h : Handles, by : Deleters, stored : Handles])
    /\ paired \subseteq Res \X Deleters
    /\ aliases \in Nat

\* -------------------------------------------------------------- properties
Count(h) == count[h]                     \* deleter calls made on h so far
Holders(r) == {o \in live : own[o].ptr = r}
\* The step calls no deleter at all.
NoCall == count' = count /\ last'.calls = <<>>
\* The step makes exactly one deleter call: on h, by deleter d, while the
\* calling owner's ptr is h.
OneCall(h, d) ==
    /\ count' = [count EXCEPT ![h] = @ + 1]
    /\ last'.calls = <<[h |-> h, by |-> d, stored |-> h]>>
\* The step is one of the operations named in ops.
Did(ops) == last'.op \in ops
\* The step's operation began with its first owner storing what a stores and
\* its second owner storing what b stores.  Every action on a (and b) implies
\* it; the properties state it before the action, which is costlier to test.
On(a) == a \in live /\ last'.pa = own[a].ptr
On2(a, b) == On(a) /\ b \in live /\ last'.pb = own[b].ptr

\* C1 - Double release never happens: whatever sequence of constructions,
\* moves (self-assignment included), get, release, reset, swap and
\* destructions the caller runs, passing only nullptr or handles it owns, no
\* resource has more than one deleter call made on it (and no call is ever
\* made on nullptr).
C1_NoDoubleRelease ==
    /\ \A r \in Res : Count(r) <= 1
    /\ Count(Null) = 0

\* Every resource the caller can allocate has been adopted and released, each
\* exactly once, the last of them by the destructor of the owner holding it.
C1_Witness ==
    /\ \A r \in Res : Count(r) = 1
    /\ last.op = "dtor"
    /\ last.pa # Null

\* C2 - Single release on destruction: the destructor of an owner that holds
\* a resource H calls the owner's deleter on H exactly once (H had no call
\* before and has exactly one after, made by that owner's deleter), calls
\* nothing else, and ends the owner's lifetime.
C2_SingleReleaseOnDestruction ==
    [][Did({"dtor"}) => \A o \in Owners :
        (own[o].ptr # Null /\ On(o) /\ Dtor(o)) =>
            /\ Count(own[o].ptr) = 0
            /\ OneCall(own[o].ptr, own[o].deleter)
            /\ count'[own[o].ptr] = 1
            /\ o \notin live']_vars

\* The destructor has just run on an owner that held a resource: the resource
\* carries exactly one call and no owner stores it.
C2_Witness ==
    /\ last.op = "dtor"
    /\ last.pa # Null
    /\ Count(last.pa) = 1
    /\ Holders(last.pa) = {}

\* C3 - Exclusive ownership: no two live owners store the same resource.
C3_ExclusiveOwnership ==
    \A r \in Res : Cardinality(Holders(r)) <= 1

\* Two live owners, each holding a resource, right after they exchanged them
\* or one took the other's.
C3_Witness ==
    /\ last.op \in {"swap", "free_swap"}
    /\ last.pa # Null /\ last.pb # Null /\ last.pa # last.pb
    /\ Cardinality(Holders(last.pa)) = 1
    /\ Cardinality(Holders(last.pb)) = 1

\* C4 - Move nulls the source: when b is move-constructed or move-assigned
\* from a distinct owner a that holds H, a stores nullptr afterwards, b
\* stores H, and the move makes no deleter call on H; and the destructor of
\* an owner that stores nullptr (as a does after the move) calls no deleter.
C4_MoveNullsSource ==
    [][/\ Did({"move_ctor", "move_assign"}) => \A a, b \in Owners :
            (a # b /\ own[a].ptr # Null /\ On(a)
                /\ (MoveCtor(b, a) \/ MoveAssign(b, a))) =>
                /\ own'[a].ptr = Null
                /\ own'[b].ptr = own[a].ptr
                /\ count'[own[a].ptr] = count[own[a].ptr]
                /\ {o \in live' : own'[o].ptr = own[a].ptr} = {b}
       /\ Did({"dtor"}) => \A a \in Owners :
            (own[a].ptr = Null /\ On(a) /\ Dtor(a)) => NoCall]_vars

\* A move from an owner that held a resource has just run, and the resource
\* is with the destination, unreleased.
C4_Witness ==
    /\ last.op \in {"move_ctor", "move_assign"}
    /\ last.pa # Null
    /\ last.pa # last.pb
    /\ Cardinality(Holders(last.pa)) = 1
    /\ Count(last.pa) = 0
    /\ \E o \in live : own[o].ptr = Null

\* C5 - Move assignment releases the destination's old resource first: for
\* distinct owners, b = move(a) with b holding H_old makes exactly one
\* deleter call, on H_old, with the deleter b had before the assignment (not
\* the one it takes from a); afterwards b stores a's handle and deleter, a
\* stores nullptr, and the handle taken from a has no call made on it.
C5_MoveAssignReleasesOldFirst ==
    [][Did({"move_assign"}) => \A a, b \in Owners :
        (a # b /\ own[b].ptr # Null /\ On2(a, b) /\ MoveAssign(b, a)) =>
            /\ Count(own[b].ptr) = 0
            /\ OneCall(own[b].ptr, own[b].deleter)
            /\ own'[b].ptr = own[a].ptr
            /\ own'[b].deleter = own[a].deleter
            /\ own'[a].ptr = Null
            /\ own[a].ptr # Null => count'[own[a].ptr] = 0]_vars

\* b held H_old, a held H_new under a different deleter; after b = move(a),
\* H_old carries one call, made by a deleter that is not the one b has now.
C5_Witness ==
    /\ last.op = "move_assign"
    /\ last.pa # Null /\ last.pb # Null /\ last.pa # last.pb
    /\ Count(last.pb) = 1
    /\ Count(last.pa) = 0
    /\ \E b \in live : own[b].ptr = last.pa /\ last.calls[1].by # own[b].deleter

\* C6 - Self-move-assignment is a no-op: a = move(a) changes neither a's ptr
\* nor a's deleter nor anything else of the program state and calls no
\* deleter, whether a holds a resource or nullptr; and a destructor that runs
\* on an owner holding H (as a still does afterwards) leaves H with exactly
\* one call.
C6_SelfMoveAssignNoOp ==
    [][/\ Did({"move_assign"}) => \A a \in Owners :
            (On2(a, a) /\ MoveAssign(a, a)) =>
                /\ own' = own
                /\ NoCall
                /\ UNCHANGED <<live, alloc, hand>>
       /\ Did({"dtor"}) => \A a \in Owners :
            (own[a].ptr # Null /\ On(a) /\ Dtor(a)) => count'[own[a].ptr] = 1]_vars

\* a = move(a) has just run on an owner holding a resource: the resource is
\* still with an owner and has no call made on it.
C6_Witness ==
    /\ last.op = "move_assign"
    /\ last.pa # Null
    /\ last.pb = last.pa
    /\ Cardinality(Holders(last.pa)) = 1
    /\ Count(last.pa) = 0

\* C7 - Reset replaces safely: reset(H2) on an owner holding H1 makes exactly
\* one deleter call, on H1, with the owner's deleter (H1 had none before);
\* the owner then stores H2 with the same deleter, and H2, if not nullptr,
\* has no call made on it.
C7_ResetReplacesSafely ==
    [][Did({"reset"}) => \A o \in Owners, h2 \in Handles :
        (own[o].ptr # Null /\ On(o) /\ own'[o].ptr = h2 /\ Reset(o, h2)) =>
            /\ Count(own[o].ptr) = 0
            /\ OneCall(own[o].ptr, own[o].deleter)
            /\ own'[o] = [ptr |-> h2, deleter |-> own[o].deleter]
            /\ h2 # Null => count'[h2] = 0]_vars

\* reset(H2), H2 not nullptr, has just run on the only live owner, which held
\* H1: H1 carries one call, the owner holds H2, H2 carries none.
C7_Witness ==
    /\ last.op = "reset"
    /\ last.pa # Null
    /\ Count(last.pa) = 1
    /\ \E o \in Owners :
        /\ live = {o}
        /\ own[o].ptr \notin {Null, last.pa}
        /\ Count(own[o].ptr) = 0

\* C8 - Release transfers responsibility: release() returns the handle the
\* owner stored, leaves the owner storing nullptr (deleter untouched), calls
\* no deleter and puts the handle in the caller's hands; and for as long as
\* the caller keeps a handle (does not adopt it into an owner again), no
\* operation on any owner makes a deleter call on it: it has no call at all.
C8_ReleaseTransfers ==
    [][/\ Did({"release"}) => \A o \in Owners :
            (On(o) /\ Release(o)) =>
                /\ last'.ret = own[o].ptr
                /\ own'[o] = [ptr |-> Null, deleter |-> own[o].deleter]
                /\ NoCall
                /\ own[o].ptr # Null => own[o].ptr \in hand'
                /\ \A q \in Owners \ {o} : own'[q] = own[q]
       /\ \A r \in hand :
            /\ Count(r) = 0
            /\ Holders(r) = {}
            /\ r \in hand' => count'[r] = 0]_vars

\* release() has just returned a resource: the caller holds it, no owner
\* does, and it has no call made on it.
C8_Witness ==
    /\ last.op = "release"
    /\ last.ret # Null
    /\ last.ret \in hand
    /\ Holders(last.ret) = {}
    /\ Count(last.ret) = 0

\* C9 - Swap exchanges without releasing: after a.swap(b) or swap(a, b), a
\* has the ptr and deleter b had and b has those a had (either ptr may be
\* nullptr; a and b may be the same owner), every other owner is untouched,
\* and no deleter was called.
C9_SwapExchanges ==
    [][Did({"swap", "free_swap"}) => \A a, b \in Owners :
        (On2(a, b) /\ (Swap(a, b) \/ FreeSwap(a, b))) =>
            /\ own'[a] = own[b]
            /\ own'[b] = own[a]
            /\ \A q \in Owners \ {a, b} : own'[q] = own[q]
            /\ NoCall
            /\ UNCHANGED <<live, alloc, hand>>]_vars

\* The free swap has just run on two owners that held different resources
\* under different deleters.
C9_Witness ==
    /\ last.op = "free_swap"
    /\ last.pa # Null /\ last.pb # Null /\ last.pa # last.pb
    /\ \E a, b \in live :
        /\ own[a].ptr = last.pb
        /\ own[b].ptr = last.pa
        /\ own[a].deleter # own[b].deleter
    /\ Count(last.pa) = 0 /\ Count(last.pb) = 0

\* C10 - An absent owner releases nothing: the destructor of an owner that
\* stores nullptr, and reset (with or without an argument) on such an owner,
\* call no deleter; and an owner stores nullptr after default construction,
\* after adopting nullptr, after being moved from, after release() and after
\* reset() without an argument.
C10_AbsentReleasesNothing ==
    [][/\ Did({"dtor"}) => \A o \in Owners :
            (own[o].ptr = Null /\ On(o) /\ Dtor(o)) => NoCall
       /\ Did({"reset"}) => \A o \in Owners, p \in Handles :
            (own[o].ptr = Null /\ On(o) /\ own'[o].ptr = p /\ Reset(o, p)) =>
                NoCall
       /\ Did({"default_ctor"}) => \A o \in Owners :
            DefaultCtor(o) => own'[o].ptr = Null
       /\ Did({"ptr_ctor"}) => \A o \in Owners :
            PtrCtor(o, Null) => own'[o].ptr = Null
       /\ Did({"ptr_deleter_ctor"}) => \A o \in Owners, d \in Deleters :
            PtrDeleterCtor(o, Null, d) => own'[o].ptr = Null
       /\ Did({"move_ctor"}) => \A o, b \in Owners :
            (b # o /\ On(o) /\ MoveCtor(b, o)) => own'[o].ptr = Null
       /\ Did({"move_assign"}) => \A o, b \in Owners :
            (b # o /\ On2(o, b) /\ MoveAssign(b, o)) => own'[o].ptr = Null
       /\ Did({"release"}) => \A o \in Owners :
            (On(o) /\ Release(o)) => own'[o].ptr = Null
       /\ Did({"reset"}) => \A o \in Owners :
            (On(o) /\ Reset(o, Null)) => own'[o].ptr = Null]_vars

\* The destructor has just run on an owner that stored nullptr because its
\* resource had been handed back by release(): the resource is in the
\* caller's hands and no deleter call was ever made.
C10_Witness ==
    /\ last.op = "dtor"
    /\ last.pa = Null
    /\ hand # {}
    /\ \A h \in Handles : Count(h) = 0

\* C11 - A moved-from owner stays usable as an empty owner: a move
\* construction or move assignment from a leaves a alive and storing nullptr
\* (with whatever deleter value the move left); and on an owner in that state
\* get() returns nullptr and changes nothing, release() returns nullptr,
\* changes nothing and calls nothing, the destructor calls nothing, reset(H)
\* with a resource of the caller's and a = move(c) from an owner holding a
\* resource leave a holding that resource (no call made), and the destructor
\* of an owner holding H leaves H with exactly one call.
C11_MovedFromUsable ==
    [][/\ Did({"move_ctor"}) => \A a, b \in Owners :
            (b \notin live /\ On(a) /\ MoveCtor(b, a)) =>
                /\ a \in live'
                /\ own'[a].ptr = Null
       /\ Did({"move_assign"}) => \A a, b \in Owners :
            (a # b /\ On2(a, b) /\ MoveAssign(b, a)) =>
                /\ a \in live'
                /\ own'[a].ptr = Null
                /\ (own[b].ptr = Null /\ own[a].ptr # Null) =>
                    /\ own'[b] = own[a]
                    /\ NoCall
                    /\ count'[own[a].ptr] = 0
       /\ Did({"get"}) => \A a \in Owners :
            (own[a].ptr = Null /\ On(a) /\ Get(a)) =>
                /\ last'.ret = Null
                /\ own' = own
                /\ NoCall
       /\ Did({"release"}) => \A a \in Owners :
            (own[a].ptr = Null /\ On(a) /\ Release(a)) =>
                /\ last'.ret = Null
                /\ own' = own
                /\ NoCall
       /\ Did({"dtor"}) => \A a \in Owners :
            (On(a) /\ Dtor(a)) =>
                IF own[a].ptr = Null
                THEN NoCall
                ELSE OneCall(own[a].ptr, own[a].deleter) /\ count'[own[a].ptr] = 1
       /\ Did({"reset"}) => \A a \in Owners, h \in Res :
            (own[a].ptr = Null /\ On(a) /\ own'[a].ptr = h /\ Reset(a, h)) =>
                /\ own'[a] = [ptr |-> h, deleter |-> own[a].deleter]
                /\ NoCall
                /\ count'[h] = 0]_vars

\* A move from an owner that held a resource has just run: the source is
\* alive and stores nullptr, and the caller has a resource at hand to give it.
C11_Witness ==
    /\ last.op \in {"move_ctor", "move_assign"}
    /\ last.pa # Null
    /\ last.pa # last.pb
    /\ \E a, b \in live : a # b /\ own[a].ptr = Null /\ own[b].ptr = last.pa
    /\ hand # {}

\* C12 - release() is idempotent on an absent owner: release() on an owner
\* that stores nullptr returns nullptr, leaves every owner as it was, gives
\* the caller nothing and calls no deleter; and after any release() the owner
\* is in that state, so that a second release() would return nullptr and end
\* in the state the first one ended in.
C12_ReleaseIdempotent ==
    [][Did({"release"}) => \A o \in Owners :
        (On(o) /\ Release(o)) =>
            /\ own[o].ptr = Null =>
                /\ last'.ret = Null
                /\ own' = own
                /\ hand' = hand
                /\ NoCall
            /\ get(Cur', o) = Null
            /\ release(Cur', o).own = own'
            /\ release(Cur', o).count = count'
            /\ release(Cur', o).calls = <<>>]_vars

\* release() has just run on an owner that stored nullptr, while the handle
\* of every allocated resource is with the caller and no deleter call was
\* ever made.
C12_Witness ==
    /\ last.op = "release"
    /\ last.pa = Null
    /\ last.ret = Null
    /\ alloc # {}
    /\ hand = alloc
    /\ \A h \in Handles : Count(h) = 0

\* C13 - get() is a pure observer: on every owner, holding a resource or
\* not, get() returns the stored handle and changes no owner's ptr or
\* deleter, no call count, no lifetime and nothing of the caller's; and the
\* destructor of the owner whose handle get() has just returned still makes
\* its single call on that handle.
C13_GetPureObserver ==
    [][/\ Did({"get"}) => \A o \in Owners :
            (On(o) /\ Get(o)) =>
                /\ last'.ret = own[o].ptr
                /\ own' = own
                /\ NoCall
                /\ UNCHANGED <<live, alloc, hand>>
       /\ (last.op = "get" /\ last.ret # Null /\ Did({"dtor"})) =>
            \A o \in Owners :
                (own[o].ptr = last.ret /\ On(o) /\ Dtor(o)) =>
                    /\ Count(last.ret) = 0
                    /\ OneCall(last.ret, own[o].deleter)]_vars

\* get() has just returned the handle of a resource: an owner still holds it
\* and it has no call made on it.
C13_Witness ==
    /\ last.op = "get"
    /\ last.ret # Null
    /\ last.ret = last.pa
    /\ Cardinality(Holders(last.ret)) = 1
    /\ Count(last.ret) = 0

C16_ReleaserTravels ==
    /\ \A i \in DOMAIN last.calls :
        <<last.calls[i].h, last.calls[i].by>> \in paired
    /\ \A o \in live :
        own[o].ptr # Null => <<own[o].ptr, own[o].deleter>> \in paired
    /\ \A r \in Res : Cardinality({d \in Deleters : <<r, d>> \in paired}) <= 1

\* A move assignment has just released the destination's old resource with
\* the deleter it was adopted with, and the destination now holds a resource
\* that was adopted with another deleter.
C16_Witness ==
    /\ last.op = "move_assign"
    /\ Len(last.calls) = 1
    /\ <<last.calls[1].h, last.calls[1].by>> \in paired
    /\ \E o \in live :
        /\ own[o].ptr = last.pa
        /\ own[o].ptr # Null
        /\ own[o].deleter # last.calls[1].by

\* C17 - Ordering inside reset: reset(p) on an owner holding H makes its one
\* deleter call on H while the owner's ptr is still H (what get() would
\* return during the call is H, neither p nor nullptr), and ptr is p once
\* reset has returned.
C17_ResetOrdering ==
    [][Did({"reset"}) => \A o \in Owners, p \in Handles :
        (own[o].ptr # Null /\ On(o) /\ own'[o].ptr = p /\ Reset(o, p)) =>
            /\ Len(last'.calls) = 1
            /\ last'.calls[1].h = own[o].ptr
            /\ last'.calls[1].stored = own[o].ptr
            /\ last'.calls[1].stored # p
            /\ get(Cur', o) = p]_vars

\* reset(p), p not nullptr, has just run on an owner that held H: the call on
\* H was made while H was stored, and an owner now stores another handle with
\* the deleter that was called.
C17_Witness ==
    /\ last.op = "reset"
    /\ last.pa # Null
    /\ Len(last.calls) = 1
    /\ last.calls[1].stored = last.pa
    /\ \E o \in live :
        /\ own[o].ptr \notin {Null, last.pa}
        /\ own[o].deleter = last.calls[1].by

\* C18 as stated - No dangling handle, the caller passing also handles that
\* get() returned: no live owner stores a handle on which a deleter call has
\* been made.
C18_NoDanglingAnyHandle ==
    \A o \in live : own[o].ptr # Null => Count(own[o].ptr) = 0

\* C18 as amended - No dangling handle, the caller passing only nullptr and
\* handles it owns (fresh ones and ones release() returned, each passed
\* once): as long as the caller has passed no handle that get() returned, no
\* live owner stores a handle on which a deleter call has been made.
C18_NoDanglingOwnedHandles ==
    aliases = 0 =>
        \A o \in live : own[o].ptr # Null => count[own[o].ptr] = 0

\* The caller has passed only handles of its own; reset has just released a
\* resource, and the owner holds the handle it was given instead, which has
\* no call made on it.
C18_Witness ==
    /\ aliases = 0
    /\ last.op = "reset"
    /\ last.pa # Null
    /\ Count(last.pa) = 1
    /\ Holders(last.pa) = {}
    /\ \E o \in live : own[o].ptr # Null /\ Count(own[o].ptr) = 0

\* C19 - No leak: every allocated resource is in exactly one of three places:
\* released (one call made, no holder, not with the caller), held by exactly
\* one live owner (no call made), or in the caller's hands (fresh, or
\* returned by release(); no call made); so that once every owner is
\* destroyed, every resource has been released exactly once or is in the
\* caller's hands, and none has no call and no holder.
C19_NoLeak ==
    /\ \A r \in alloc :
        \/ Count(r) = 1 /\ Holders(r) = {} /\ r \notin hand
        \/ Count(r) = 0 /\ Cardinality(Holders(r)) = 1 /\ r \notin hand
        \/ Count(r) = 0 /\ Holders(r) = {} /\ r \in hand
    /\ live = {} =>
        \A r \in alloc : (Count(r) = 1 /\ r \notin hand) \/ (Count(r) = 0 /\ r \in hand)

\* Every owner has been destroyed, the last one just now; of the resources
\* allocated, one has been released and another is in the caller's hands.
C19_Witness ==
    /\ live = {}
    /\ last.op = "dtor"
    /\ \E r \in alloc : Count(r) = 1
    /\ \E r \in alloc : r \in hand /\ Count(r) = 0

====
